---- MODULE Spec2Model ----
(***************************************************************************)
(* Model of Tp3.py: a static Huffman file compressor.                      *)
(*                                                                         *)
(* compress_file reads the input bytes, counts them, builds the Huffman    *)
(* tree with heapq, derives the codebook, and writes the container         *)
(*     uint16 N | N x (byte, uint32 freq) | padding byte | payload         *)
(* decompress_file parses such a file, rebuilds the tree from the stored   *)
(* table, strips the padding and walks the tree bit by bit.                *)
(*                                                                         *)
(* Bits are 0/1, bit strings and byte strings are sequences, a dict is the *)
(* sequence of its <<key, value>> items in insertion order.                *)
(***************************************************************************)
EXTENDS Integers, Sequences, FiniteSets, TLC

\* Number of distinct byte values the input may draw from.
NumSymbols == 3
\* Longest input byte sequence.
MaxLen == 5
\* Most modifications made to the compressed file before it is decoded.
MaxTamper == 2

Alphabet == 65..(64 + NumSymbols)
\* Values an overwritten padding byte takes.
PadValues == {0, 7, 9}

Min(a, b) == IF a < b THEN a ELSE b
Max(a, b) == IF a > b THEN a ELSE b

(***************************************************************************)
(* class Node                                                              *)
(***************************************************************************)
\* byte=None of a merged node
NoneByte == -1
\* left=None / right=None of a leaf, and "no tree"
NoneNode == [none |-> TRUE]

Node(byte, freq, left, right) ==
    [byte |-> byte, freq |-> freq, left |-> left, right |-> right]

\* Node.__lt__
NodeLt(self, other) == self.freq < other.freq

(***************************************************************************)
(* heapq, as create_huffman_tree uses it.  Positions are 0-based as in the *)
(* library; heap[pos + 1] is the list element at pos.                      *)
(***************************************************************************)
RECURSIVE SiftdownLoop(_, _, _, _)
SiftdownLoop(heap, startpos, pos, newitem) ==
    IF pos > startpos
    THEN LET parentpos == (pos - 1) \div 2
             parent == heap[parentpos + 1]
         IN  IF NodeLt(newitem, parent)
             THEN SiftdownLoop([heap EXCEPT ![pos + 1] = parent],
                               startpos, parentpos, newitem)
             ELSE [heap EXCEPT ![pos + 1] = newitem]
    ELSE [heap EXCEPT ![pos + 1] = newitem]

siftdown(heap, startpos, pos) ==
    SiftdownLoop(heap, startpos, pos, heap[pos + 1])

RECURSIVE SiftupLoop(_, _, _, _)
SiftupLoop(heap, startpos, pos, newitem) ==
    LET endpos == Len(heap)
        childpos == 2 * pos + 1
    IN  IF childpos < endpos
        THEN LET rightpos == childpos + 1
                 c == IF /\ rightpos < endpos
                         /\ ~NodeLt(heap[childpos + 1], heap[rightpos + 1])
                      THEN rightpos
                      ELSE childpos
             IN  SiftupLoop([heap EXCEPT ![pos + 1] = heap[c + 1]],
                            startpos, c, newitem)
        ELSE siftdown([heap EXCEPT ![pos + 1] = newitem], startpos, pos)

siftup(heap, pos) == SiftupLoop(heap, pos, pos, heap[pos + 1])

\* for i in reversed(range(n//2)): _siftup(x, i)
RECURSIVE HeapifyFrom(_, _)
HeapifyFrom(heap, i) ==
    IF i < 0 THEN heap ELSE HeapifyFrom(siftup(heap, i), i - 1)

heapify(heap) == HeapifyFrom(heap, (Len(heap) \div 2) - 1)

\* heappop on a non-empty heap: <<smallest item, remaining heap>>
heappop(heap) ==
    LET lastelt == heap[Len(heap)]
        rest == SubSeq(heap, 1, Len(heap) - 1)
    IN  IF rest # <<>>
        THEN <<rest[1], siftup([rest EXCEPT ![1] = lastelt], 0)>>
        ELSE <<lastelt, rest>>

heappush(heap, item) ==
    siftdown(Append(heap, item), 0, Len(heap))

(***************************************************************************)
(* dict and Counter                                                        *)
(***************************************************************************)
HasKey(d, k) == \E i \in 1..Len(d) : d[i][1] = k

DictGet(d, k) == d[CHOOSE i \in 1..Len(d) : d[i][1] = k][2]

\* d[k] = v: an existing key keeps its position, a new key goes last
DictSet(d, k, v) ==
    IF HasKey(d, k)
    THEN [i \in 1..Len(d) |-> IF d[i][1] = k THEN <<k, v>> ELSE d[i]]
    ELSE Append(d, <<k, v>>)

RECURSIVE CounterFrom(_, _, _)
CounterFrom(bytes, i, d) ==
    IF i > Len(bytes) THEN d
    ELSE CounterFrom(bytes, i + 1,
             DictSet(d, bytes[i],
                     IF HasKey(d, bytes[i]) THEN DictGet(d, bytes[i]) + 1 ELSE 1))

Counter(bytes) == CounterFrom(bytes, 1, <<>>)

(***************************************************************************)
(* create_huffman_tree                                                     *)
(***************************************************************************)
RECURSIVE MergeLoop(_)
MergeLoop(heap) ==
    IF Len(heap) > 1
    THEN LET p1 == heappop(heap)
             left == p1[1]
             p2 == heappop(p1[2])
             right == p2[1]
             merged == Node(NoneByte, left.freq + right.freq, left, right)
         IN  MergeLoop(heappush(p2[2], merged))
    ELSE heap

\* heap[0] of an empty list raises IndexError
TreeRaises(frequencies) == Len(frequencies) = 0

\* [Node(byte, freq) for byte, freq in frequencies.items()]
RECURSIVE Leaves(_)
Leaves(frequencies) ==
    IF frequencies = <<>> THEN <<>>
    ELSE <<Node(frequencies[1][1], frequencies[1][2], NoneNode, NoneNode)>>
         \o Leaves(Tail(frequencies))

create_huffman_tree(frequencies) ==
    LET final == MergeLoop(heapify(Leaves(frequencies)))
    IN  IF TreeRaises(frequencies) THEN NoneNode ELSE final[1]

(***************************************************************************)
(* generate_codes                                                          *)
(***************************************************************************)
\* variant: the right branch extends the prefix with "0" as the left one does
RECURSIVE generate_codes_same_bit(_, _, _)
generate_codes_same_bit(node, prefix, codebook) ==
    IF node.byte # NoneByte
    THEN DictSet(codebook, node.byte, prefix)
    ELSE generate_codes_same_bit(node.right, Append(prefix, 0),
             generate_codes_same_bit(node.left, Append(prefix, 0), codebook))

RECURSIVE generate_codes(_, _, _)
generate_codes(node, prefix, codebook) ==
    IF node.byte # NoneByte
    THEN DictSet(codebook, node.byte, prefix)
    ELSE generate_codes(node.right, Append(prefix, 1),
             generate_codes(node.left, Append(prefix, 0), codebook))

(***************************************************************************)
(* bits_to_bytes, bytes_to_bits, int.to_bytes, int.from_bytes              *)
(***************************************************************************)
\* int(bits, 2)
RECURSIVE IntBase2(_)
IntBase2(bits) ==
    IF bits = <<>> THEN 0
    ELSE 2 * IntBase2(SubSeq(bits, 1, Len(bits) - 1)) + bits[Len(bits)]

bits_to_bytes(bits) ==
    [k \in 1..((Len(bits) + 7) \div 8) |->
        IntBase2(SubSeq(bits, 8 * (k - 1) + 1, Min(8 * k, Len(bits))))]

\* f'{byte:08b}'
Format08b(byte) ==
    [j \in 1..8 |-> (byte \div (2 ^ (8 - j))) % 2]

bytes_to_bits(byte_arr) ==
    [k \in 1..(8 * Len(byte_arr)) |->
        Format08b(byte_arr[((k - 1) \div 8) + 1])[((k - 1) % 8) + 1]]

\* n.to_bytes(length, 'big')
to_bytes(n, length) ==
    [j \in 1..length |-> (n \div (256 ^ (length - j))) % 256]

\* int.from_bytes(bytes, 'big'); fewer bytes than asked for are accepted
RECURSIVE from_bytes(_)
from_bytes(bytes) ==
    IF bytes = <<>> THEN 0
    ELSE 256 * from_bytes(SubSeq(bytes, 1, Len(bytes) - 1)) + bytes[Len(bytes)]

Zeros(n) == [j \in 1..n |-> 0]

(***************************************************************************)
(* calculate_entropy, calculate_average_length and                         *)
(* calculate_compression_metrics: only the exception they end in matters,  *)
(* the figures are printed and discarded.  size is the divisor of the      *)
(* compression ratio.                                                      *)
(***************************************************************************)
RECURSIVE SumFreq(_)
SumFreq(frequencies) ==
    IF frequencies = <<>> THEN 0
    ELSE frequencies[1][2] + SumFreq(Tail(frequencies))

RECURSIVE WeightedLength(_, _)
WeightedLength(huffman_codes, frequencies) ==
    IF huffman_codes = <<>> THEN 0
    ELSE Len(huffman_codes[1][2]) * DictGet(frequencies, huffman_codes[1][1])
         + WeightedLength(Tail(huffman_codes), frequencies)

MetricsError(frequencies, huffman_codes, total_symbols, size) ==
    IF size = 0 THEN "ZeroDivisionError"
    ELSE IF frequencies # <<>> /\ total_symbols = 0 THEN "ZeroDivisionError"
    ELSE IF \E i \in 1..Len(frequencies) : frequencies[i][2] = 0 THEN "ValueError"
    ELSE IF WeightedLength(huffman_codes, frequencies) = 0 THEN "ZeroDivisionError"
    ELSE "none"

(***************************************************************************)
(* compress_file                                                           *)
(***************************************************************************)
\* ''.join(huffman_codes[byte] for byte in data)
RECURSIVE Encode(_, _)
Encode(huffman_codes, bytes) ==
    IF bytes = <<>> THEN <<>>
    ELSE DictGet(huffman_codes, bytes[1]) \o Encode(huffman_codes, Tail(bytes))

\* variant: no filler byte when the length is already a multiple of 8
PaddingForMod8(encoded_data) == (8 - (Len(encoded_data) % 8)) % 8

\* padding = 8 - len(encoded_data) % 8
PaddingFor(encoded_data) == 8 - (Len(encoded_data) % 8)

\* variant: six-byte records, the byte value written on two bytes
RECURSIVE TableBytes6(_)
TableBytes6(frequencies) ==
    IF frequencies = <<>> THEN <<>>
    ELSE to_bytes(frequencies[1][1], 2) \o to_bytes(frequencies[1][2], 4)
         \o TableBytes6(Tail(frequencies))

\* the frequency records of the header
RECURSIVE TableBytes(_)
TableBytes(frequencies) ==
    IF frequencies = <<>> THEN <<>>
    ELSE <<frequencies[1][1]>> \o to_bytes(frequencies[1][2], 4)
         \o TableBytes(Tail(frequencies))

\* everything f_out receives
Serialize(frequencies, padding, padded) ==
    to_bytes(Len(frequencies), 2) \o TableBytes(frequencies)
        \o <<padding>> \o bits_to_bytes(padded)

NoCompress ==
    [ran |-> FALSE, err |-> "none", wrote |-> FALSE, frequencies |-> <<>>,
     tree |-> NoneNode, codes |-> <<>>, encoded |-> <<>>, padding |-> 0,
     bytes |-> <<>>]

compress_file(bytes) ==
    LET frequencies == Counter(bytes)
        huffman_tree == create_huffman_tree(frequencies)
        huffman_codes == generate_codes(huffman_tree, <<>>, <<>>)
        encoded_data == Encode(huffman_codes, bytes)
        padding == PaddingFor(encoded_data)
    IN  IF TreeRaises(frequencies)
        THEN [NoCompress EXCEPT !.ran = TRUE, !.err = "IndexError",
                                !.frequencies = frequencies]
        ELSE [ran |-> TRUE,
              err |-> MetricsError(frequencies, huffman_codes, Len(bytes), Len(bytes)),
              wrote |-> TRUE,
              frequencies |-> frequencies,
              tree |-> huffman_tree,
              codes |-> huffman_codes,
              encoded |-> encoded_data,
              padding |-> padding,
              bytes |-> Serialize(frequencies, padding,
                                  encoded_data \o Zeros(padding))]

(***************************************************************************)
(* decompress_file                                                         *)
(***************************************************************************)
\* f_in.read(n) at 1-based position pos: at most n bytes, fewer at the end
Read(bytes, pos, n) == SubSeq(bytes, pos, Min(pos + n - 1, Len(bytes)))

\* the loop over range(num_bytes); read(1)[0] at end of file raises
RECURSIVE ReadTable(_, _, _, _)
ReadTable(bytes, pos, remaining, frequencies) ==
    IF remaining = 0
    THEN [err |-> "none", frequencies |-> frequencies, pos |-> pos]
    ELSE IF Read(bytes, pos, 1) = <<>>
    THEN [err |-> "IndexError", frequencies |-> frequencies, pos |-> pos]
    ELSE LET byte == bytes[pos]
             raw == Read(bytes, pos + 1, 4)
         IN  ReadTable(bytes, pos + 1 + Len(raw), remaining - 1,
                       DictSet(frequencies, byte, from_bytes(raw)))

\* encoded_data[:-padding]
StripPadding(encoded_data, padding) ==
    IF padding = 0 THEN <<>>
    ELSE SubSeq(encoded_data, 1, Max(Len(encoded_data) - padding, 0))

\* the walk over encoded_data; stepping below a leaf reads .byte of None
RECURSIVE DecodeLoop(_, _, _, _, _)
DecodeLoop(huffman_tree, node, encoded_data, i, decoded_data) ==
    IF i > Len(encoded_data)
    THEN [err |-> "none", decoded |-> decoded_data, node |-> node]
    ELSE LET next == IF encoded_data[i] = 0 THEN node.left ELSE node.right
         IN  IF next = NoneNode
             THEN [err |-> "AttributeError", decoded |-> decoded_data, node |-> node]
             ELSE IF next.byte # NoneByte
             THEN DecodeLoop(huffman_tree, huffman_tree, encoded_data, i + 1,
                             Append(decoded_data, next.byte))
             ELSE DecodeLoop(huffman_tree, next, encoded_data, i + 1, decoded_data)

NoDecompress ==
    [ran |-> FALSE, err |-> "none", written |-> FALSE, output |-> <<>>,
     frequencies |-> <<>>, tree |-> NoneNode, padding |-> 0, encoded |-> <<>>,
     decoded |-> <<>>, mid |-> FALSE]

decompress_file(exists, bytes) ==
    LET num_bytes == from_bytes(Read(bytes, 1, 2))
        table == ReadTable(bytes, Len(Read(bytes, 1, 2)) + 1, num_bytes, <<>>)
        frequencies == table.frequencies
        huffman_tree == create_huffman_tree(frequencies)
        padpos == table.pos
        padding == bytes[padpos]
        byte_data == SubSeq(bytes, padpos + 1, Len(bytes))
        encoded_data == StripPadding(bytes_to_bits(byte_data), padding)
        walk == DecodeLoop(huffman_tree, huffman_tree, encoded_data, 1, <<>>)
        ran == [NoDecompress EXCEPT !.ran = TRUE]
    IN  IF ~exists THEN [ran EXCEPT !.err = "FileNotFoundError"]
        ELSE IF table.err # "none"
        THEN [ran EXCEPT !.err = table.err, !.frequencies = frequencies]
        ELSE IF TreeRaises(frequencies) THEN [ran EXCEPT !.err = "IndexError"]
        ELSE IF Read(bytes, padpos, 1) = <<>>
        THEN [ran EXCEPT !.err = "IndexError", !.frequencies = frequencies,
                         !.tree = huffman_tree]
        ELSE IF walk.err # "none"
        THEN [ran EXCEPT !.err = walk.err, !.frequencies = frequencies,
                         !.tree = huffman_tree, !.padding = padding,
                         !.encoded = encoded_data, !.decoded = walk.decoded]
        ELSE [ran |-> TRUE,
              err |-> MetricsError(frequencies,
                                   generate_codes(huffman_tree, <<>>, <<>>),
                                   SumFreq(frequencies), Len(walk.decoded)),
              written |-> TRUE,
              output |-> walk.decoded,
              frequencies |-> frequencies,
              tree |-> huffman_tree,
              padding |-> padding,
              encoded |-> encoded_data,
              decoded |-> walk.decoded,
              mid |-> walk.node # huffman_tree]

(***************************************************************************)
(* State: the original file, the compressed file on disk, and what the two *)
(* runs of the program computed.                                           *)
(***************************************************************************)
VARIABLES data, comp, exists, file, tamper, dec

vars == <<data, comp, exists, file, tamper, dec>>

RECURSIVE SeqsUpTo(_)
SeqsUpTo(n) ==
    IF n = 0 THEN {<<>>}
    ELSE LET shorter == SeqsUpTo(n - 1)
         IN  shorter \cup {Append(s, b) : s \in {t \in shorter : Len(t) = n - 1},
                                         b \in Alphabet}

Init ==
    /\ data \in SeqsUpTo(MaxLen)
    /\ comp = NoCompress
    /\ exists = FALSE
    /\ file = <<>>
    /\ tamper = 0
    /\ dec = NoDecompress

\* python Tp3 -c original compressed
CompressFile ==
    /\ ~comp.ran
    /\ comp' = compress_file(data)
    /\ exists' = comp'.wrote
    /\ file' = comp'.bytes
    /\ UNCHANGED <<data, tamper, dec>>

\* the compressed file loses its last byte before it is read back
TruncateFile ==
    /\ comp.ran /\ exists /\ ~dec.ran
    /\ tamper < MaxTamper
    /\ file # <<>>
    /\ file' = SubSeq(file, 1, Len(file) - 1)
    /\ tamper' = tamper + 1
    /\ UNCHANGED <<data, comp, exists, dec>>

\* the byte at the padding offset is overwritten before the file is read back
SetPadding(p) ==
    LET off == 3 + 5 * Len(comp.frequencies)
    IN  /\ comp.ran /\ exists /\ ~dec.ran
        /\ tamper < MaxTamper
        /\ Len(file) >= off
        /\ file[off] # p
        /\ file' = [file EXCEPT ![off] = p]
        /\ tamper' = tamper + 1
        /\ UNCHANGED <<data, comp, exists, dec>>

\* the count field is overwritten before the file is read back
SetCount(n) ==
    /\ comp.ran /\ exists /\ ~dec.ran
    /\ tamper < MaxTamper
    /\ Len(file) >= 2
    /\ SubSeq(file, 1, 2) # to_bytes(n, 2)
    /\ file' = to_bytes(n, 2) \o SubSeq(file, 3, Len(file))
    /\ tamper' = tamper + 1
    /\ UNCHANGED <<data, comp, exists, dec>>

\* python Tp3 -d original compressed
DecompressFile ==
    /\ comp.ran /\ ~dec.ran
    /\ dec' = decompress_file(exists, file)
    /\ UNCHANGED <<data, comp, exists, file, tamper>>

Next ==
    \/ CompressFile
    \/ TruncateFile
    \/ \E p \in PadValues : SetPadding(p)
    \/ \E n \in 0..(NumSymbols + 1) : SetCount(n)
    \/ DecompressFile

Spec == Init /\ [][Next]_vars

(***************************************************************************)
(* Vocabulary of the properties                                            *)
(***************************************************************************)
\* the distinct byte values of the input
Distinct == {data[i] : i \in 1..Len(data)}

\* how often byte b occurs in the input
Occurrences(b) == Cardinality({i \in 1..Len(data) : data[i] = b})

\* p is a prefix of q
IsPrefix(p, q) == Len(p) <= Len(q) /\ SubSeq(q, 1, Len(p)) = p

\* decompress_file has read exactly what compress_file left on disk
Untouched == dec.ran /\ tamper = 0

\* the payload bytes compress_file wrote
PayloadLen == (Len(comp.encoded) + comp.padding) \div 8

(***************************************************************************)
(* C1  Round trip: for every input, the empty one and the ones with a      *)
(* single distinct byte value included, compress_file writes a container   *)
(* and decompress_file applied to it writes an output equal to the input.  *)
(***************************************************************************)
C1_RoundTrip ==
    /\ comp.ran => comp.wrote
    /\ Untouched => dec.written /\ dec.output = data

(***************************************************************************)
(* C2  Padding bound: the padding count compress_file stores is in 0..7,   *)
(* equals (8 - L mod 8) mod 8 for the unpadded bit length L, and is 0      *)
(* exactly when L is a multiple of 8.                                      *)
(***************************************************************************)
C2_PaddingBound ==
    comp.wrote =>
        LET L == Len(comp.encoded)
        IN  /\ comp.padding \in 0..7
            /\ comp.padding = (8 - (L % 8)) % 8
            /\ (comp.padding = 0) <=> (L % 8 = 0)

(***************************************************************************)
(* C3  Single-leaf tree: an input with exactly one distinct byte value     *)
(* gets a non-empty code for that byte, and decoding the container         *)
(* recovers the input.                                                     *)
(***************************************************************************)
C3_SingleLeaf ==
    Cardinality(Distinct) = 1 =>
        /\ comp.ran => \A i \in 1..Len(comp.codes) : comp.codes[i][2] # <<>>
        /\ Untouched => dec.written /\ dec.output = data

(***************************************************************************)
(* C4  Empty input: compressing the empty input completes and writes the   *)
(* three header bytes with N = 0 and no payload, and decompressing that    *)
(* container completes and writes the empty output.                        *)
(***************************************************************************)
C4_EmptyInput ==
    data = <<>> =>
        /\ comp.ran => /\ comp.err = "none"
                       /\ comp.wrote
                       /\ Len(comp.bytes) = 3
                       /\ SubSeq(comp.bytes, 1, 2) = <<0, 0>>
        /\ Untouched => dec.err = "none" /\ dec.written /\ dec.output = <<>>

(***************************************************************************)
(* C5  Truncated stream: when the bits left after stripping the padding    *)
(* end while the walk is below the root, decompress_file fails with        *)
(* TruncatedStream and writes no output; a container that lost its last    *)
(* payload byte never yields a written output of another length than the   *)
(* input.                                                                  *)
(***************************************************************************)
C5_TruncatedStream ==
    /\ (dec.ran /\ dec.mid) => dec.err = "TruncatedStream" /\ ~dec.written
    /\ ( /\ dec.ran /\ comp.wrote /\ PayloadLen > 0
         /\ file = SubSeq(comp.bytes, 1, Len(comp.bytes) - 1) )
       => ~(dec.written /\ Len(dec.output) # Len(data))

(***************************************************************************)
(* C6  Container layout as stated: the header has 2 + 6N + 1 bytes, the    *)
(* padding count sits at offset 2 + 6N and the payload starts at offset    *)
(* 3 + 6N, N being the number of distinct byte values.                     *)
(***************************************************************************)
C6_Layout6N ==
    comp.wrote =>
        LET N == Cardinality(Distinct)
            header == 2 + 6 * N + 1
        IN  /\ Len(comp.bytes) >= header
            /\ comp.bytes[header] = comp.padding
            /\ Len(comp.bytes) = header + PayloadLen

(***************************************************************************)
(* C6 amended  Every container compress_file writes has a header of        *)
(* exactly 2 + 5N + 1 bytes: the big-endian uint16 N, N records of one     *)
(* byte value and its big-endian uint32 count (5N bytes), the padding      *)
(* count at offset 2 + 5N; the payload starts at offset 3 + 5N and the     *)
(* container is at least as long as its header.                            *)
(***************************************************************************)
C6_Layout5N ==
    comp.wrote =>
        LET N == Cardinality(Distinct)
            header == 2 + 5 * N + 1
        IN  /\ Len(comp.bytes) >= header
            /\ 256 * comp.bytes[1] + comp.bytes[2] = N
            /\ \A i \in 1..N :
                 LET at == 2 + 5 * (i - 1)
                 IN  /\ comp.bytes[at + 1] \in Distinct
                     /\ comp.bytes[at + 2] = 0 /\ comp.bytes[at + 3] = 0
                     /\ 256 * comp.bytes[at + 4] + comp.bytes[at + 5]
                          = Occurrences(comp.bytes[at + 1])
            /\ \A i, j \in 1..N :
                 i # j => comp.bytes[2 + 5 * (i - 1) + 1] # comp.bytes[2 + 5 * (j - 1) + 1]
            /\ comp.bytes[header] = comp.padding
            /\ Len(comp.bytes) = header + PayloadLen

C6_Witness ==
    /\ comp.wrote
    /\ Cardinality(Distinct) = NumSymbols
    /\ Len(comp.bytes) = 2 + 5 * NumSymbols + 1 + PayloadLen
    /\ PayloadLen >= 1

(***************************************************************************)
(* C7  Malformed container: decompress_file fails and decodes and writes   *)
(* nothing whenever the declared count times the record size exceeds the   *)
(* bytes after the count field, or the stored padding count is not in      *)
(* 0..7.                                                                   *)
(***************************************************************************)
C7_Malformed ==
    (dec.ran /\ exists) =>
        LET declared == from_bytes(Read(file, 1, 2))
            padAt == 3 + 5 * declared
            short == 5 * declared > Len(file) - 2
            badPad == Len(file) >= padAt /\ file[padAt] \notin 0..7
        IN  (short \/ badPad) =>
                dec.err # "none" /\ ~dec.written /\ dec.decoded = <<>>

(***************************************************************************)
(* C8  Prefix-free codebook: for every non-empty frequency table the       *)
(* codebook has exactly one entry per distinct byte value and no code is a *)
(* prefix of the code of another byte value.                               *)
(***************************************************************************)
C8_PrefixFree ==
    (comp.ran /\ Distinct # {}) =>
        /\ Len(comp.codes) = Cardinality(Distinct)
        /\ \A b \in Distinct :
             Cardinality({i \in 1..Len(comp.codes) : comp.codes[i][1] = b}) = 1
        /\ \A i, j \in 1..Len(comp.codes) :
             i # j => ~IsPrefix(comp.codes[i][2], comp.codes[j][2])

C8_Witness ==
    /\ comp.ran
    /\ Len(comp.codes) = 3
    /\ \E i, j \in 1..Len(comp.codes) : Len(comp.codes[i][2]) < Len(comp.codes[j][2])

(***************************************************************************)
(* C10  For every input with at least two distinct byte values, the tree   *)
(* decompress_file rebuilds from the stored table is the tree              *)
(* compress_file built, the stored padding of 1..8 bits is stripped        *)
(* exactly, and the written output equals the input.                       *)
(***************************************************************************)
C10_RebuiltTree ==
    (Untouched /\ Cardinality(Distinct) >= 2) =>
        /\ dec.tree = comp.tree
        /\ comp.padding \in 1..8
        /\ dec.padding = comp.padding
        /\ dec.encoded = comp.encoded
        /\ dec.written
        /\ dec.output = data

C10_Witness ==
    /\ Untouched
    /\ Cardinality(Distinct) = 3
    /\ comp.padding = 8
    /\ dec.tree = comp.tree
    /\ dec.output = data

====
